---- MODULE Spec2Model ----
(***************************************************************************)
(* A model of the file operation handlers and the edit engine of the       *)
(* filesystem server (src/src/utils/file-utils.ts).                         *)
(*                                                                         *)
(* Text is a sequence of one-character strings.  A path is a sequence of   *)
(* segment names.  The filesystem is a function from the canonical paths   *)
(* of a small universe to nodes.  A request is a record; every await of a  *)
(* handler is one action, together with the synchronous code that follows  *)
(* it up to the next await.                                                 *)
(***************************************************************************)
EXTENDS Naturals, Integers, Sequences, FiniteSets, TLC

VARIABLES perms, fs, req, served, prev

vars == <<perms, fs, req, served, prev>>

(***************************************************************************)
(* Characters                                                              *)
(***************************************************************************)
LF == "\n"
CR == "\r"
SP == " "
TAB == "\t"
DOLLAR == "$"
AMP == "&"
\* the backtick and the apostrophe, spelled out: the lexer reserves both characters
TICK == "BACKTICK"
QUOTE == "APOSTROPHE"

\* what /\s/ and String.prototype.trim treat as white space
WhiteSpace == {SP, TAB, LF, CR}

Max(a, b) == IF a >= b THEN a ELSE b

\* s.slice(from - 1, to) in 1-based inclusive positions
Slice(s, from, to) == IF to < from THEN <<>> ELSE SubSeq(s, from, to)

\* s.slice(from - 1)
Rest(s, from) == Slice(s, from, Len(s))

RECURSIVE Repeat(_, _)
Repeat(c, n) == IF n = 0 THEN <<>> ELSE <<c>> \o Repeat(c, n - 1)

RECURSIVE Concat(_)
Concat(ss) == IF ss = <<>> THEN <<>> ELSE Head(ss) \o Concat(Tail(ss))

(***************************************************************************)
(* String.prototype operations used by the edit engine                     *)
(***************************************************************************)
\* text.replace(/\r\n/g, LF)
RECURSIVE normalizeLineEndings(_)
normalizeLineEndings(text) ==
  IF text = <<>> THEN <<>>
  ELSE IF Len(text) >= 2 /\ text[1] = CR /\ text[2] = LF
       THEN <<LF>> \o normalizeLineEndings(Rest(text, 3))
       ELSE <<text[1]>> \o normalizeLineEndings(Tail(text))

\* whether sub occurs in s at 1-based position i
OccursAt(s, sub, i) ==
  /\ i >= 1
  /\ i + Len(sub) - 1 <= Len(s)
  /\ Slice(s, i, i + Len(sub) - 1) = sub

\* s.includes(sub)
Includes(s, sub) == \E i \in 1..(Len(s) + 1) : OccursAt(s, sub, i)

\* s.indexOf(sub) + 1, for a sub that occurs
IndexOf(s, sub) ==
  CHOOSE i \in 1..(Len(s) + 1) :
    /\ OccursAt(s, sub, i)
    /\ \A k \in 1..(i - 1) : ~OccursAt(s, sub, k)

\* GetSubstitution for a string pattern (no captures): $$ is a dollar, $& the
\* match, $ TICK the text before it, $ QUOTE the text after it; any other $ is
\* literal
RECURSIVE GetSubstitution(_, _, _, _)
GetSubstitution(matched, before, after, repl) ==
  IF repl = <<>> THEN <<>>
  ELSE IF repl[1] = DOLLAR /\ Len(repl) >= 2 /\ repl[2] \in {DOLLAR, AMP, TICK, QUOTE}
       THEN (CASE repl[2] = DOLLAR -> <<DOLLAR>>
               [] repl[2] = AMP -> matched
               [] repl[2] = TICK -> before
               [] repl[2] = QUOTE -> after)
            \o GetSubstitution(matched, before, after, Rest(repl, 3))
       ELSE <<repl[1]>> \o GetSubstitution(matched, before, after, Tail(repl))

\* s.replace(old, new) with a string pattern: the first occurrence only
StringReplace(s, old, new) ==
  IF ~Includes(s, old) THEN s
  ELSE LET i == IndexOf(s, old)
           before == Slice(s, 1, i - 1)
           after == Rest(s, i + Len(old))
       IN before \o GetSubstitution(old, before, after, new) \o after

\* s.split(LF)
RECURSIVE SplitLines(_)
SplitLines(s) ==
  IF ~Includes(s, <<LF>>) THEN <<s>>
  ELSE LET i == IndexOf(s, <<LF>>)
       IN <<Slice(s, 1, i - 1)>> \o SplitLines(Rest(s, i + 1))

\* lines.join(LF)
RECURSIVE JoinLines(_)
JoinLines(lines) ==
  IF lines = <<>> THEN <<>>
  ELSE IF Len(lines) = 1 THEN lines[1]
       ELSE lines[1] \o <<LF>> \o JoinLines(Tail(lines))

\* line.match(/^\s*/)?.[0], or the empty string
RECURSIVE LeadingWhitespace(_)
LeadingWhitespace(line) ==
  IF line # <<>> /\ line[1] \in WhiteSpace
  THEN <<line[1]>> \o LeadingWhitespace(Tail(line))
  ELSE <<>>

\* line.trimStart()
TrimStart(line) == Rest(line, Len(LeadingWhitespace(line)) + 1)

RECURSIVE TrimEnd(_)
TrimEnd(line) ==
  IF line # <<>> /\ line[Len(line)] \in WhiteSpace
  THEN TrimEnd(Slice(line, 1, Len(line) - 1))
  ELSE line

\* line.trim()
Trim(line) == TrimEnd(TrimStart(line))

(***************************************************************************)
(* The edit engine: applyFileEdits, one edit of its loop at a time          *)
(***************************************************************************)
\* a comparison of the lines as they are, white space and all
IsMatchUntrimmed(contentLines, oldLines, i) ==
  \A j \in 1..Len(oldLines) : oldLines[j] = contentLines[i + j - 1]

\* oldLines.every((oldLine, j) => oldLine.trim() === potentialMatch[j].trim()),
\* for the window of contentLines that starts at 1-based line i
IsMatch(contentLines, oldLines, i) ==
  \A j \in 1..Len(oldLines) : Trim(oldLines[j]) = Trim(contentLines[i + j - 1])

\* the window starts the loop tries: i = 0 .. contentLines.length - oldLines.length
WindowStarts(contentLines, oldLines) ==
  IF Len(contentLines) >= Len(oldLines)
  THEN 1..(Len(contentLines) - Len(oldLines) + 1)
  ELSE {}

\* one replacement line of the fuzzy branch (j is 0-based, as in the source)
ReprojectLine(line, j, oldLines, originalIndent) ==
  IF j = 0 THEN originalIndent \o TrimStart(line)
  ELSE LET oldIndent == IF j + 1 <= Len(oldLines)
                        THEN LeadingWhitespace(oldLines[j + 1])
                        ELSE <<>>
           newIndent == LeadingWhitespace(line)
       IN IF oldIndent # <<>> /\ newIndent # <<>>
          THEN originalIndent
               \o Repeat(SP, Max(0, Len(newIndent) - Len(oldIndent)))
               \o TrimStart(line)
          ELSE line

\* the fuzzy branch on the first matching window i: splice and join
FuzzyReplace(contentLines, oldLines, normalizedNew, i) ==
  LET originalIndent == LeadingWhitespace(contentLines[i])
      authored == SplitLines(normalizedNew)
      newLines == [j \in 1..Len(authored) |->
                     ReprojectLine(authored[j], j - 1, oldLines, originalIndent)]
  IN JoinLines(Slice(contentLines, 1, i - 1)
               \o newLines
               \o Rest(contentLines, i + Len(oldLines)))

\* whether the exact branch is taken
ExactMatch(modifiedContent, normalizedOld) == Includes(modifiedContent, normalizedOld)

\* one iteration of the loop over the edits: the branch taken ("exact", "fuzzy"
\* or "none", which throws) and the new modifiedContent
ApplyOneEdit(modifiedContent, edit) ==
  LET normalizedOld == normalizeLineEndings(edit.oldText)
      normalizedNew == normalizeLineEndings(edit.newText)
      oldLines == SplitLines(normalizedOld)
      contentLines == SplitLines(modifiedContent)
      hits == {i \in WindowStarts(contentLines, oldLines) :
                 IsMatch(contentLines, oldLines, i)}
  IN IF ExactMatch(modifiedContent, normalizedOld)
     THEN [how |-> "exact",
           content |-> StringReplace(modifiedContent, normalizedOld, normalizedNew)]
     ELSE IF hits # {}
          THEN LET first == CHOOSE i \in hits : \A k \in hits : i <= k
               IN [how |-> "fuzzy",
                   content |-> FuzzyReplace(contentLines, oldLines, normalizedNew, first)]
          ELSE [how |-> "none", content |-> modifiedContent]

(***************************************************************************)
(* The diff.  createTwoFilesPatch belongs to the diff package; it is        *)
(* modelled as one hunk between the longest common prefix and suffix of     *)
(* lines, with up to four lines of context on each side.                    *)
(***************************************************************************)
DiffContext == 4

RECURSIVE CommonPrefix(_, _)
CommonPrefix(a, b) ==
  IF a # <<>> /\ b # <<>> /\ Head(a) = Head(b)
  THEN 1 + CommonPrefix(Tail(a), Tail(b))
  ELSE 0

RECURSIVE CommonSuffix(_, _)
CommonSuffix(a, b) ==
  IF a # <<>> /\ b # <<>> /\ a[Len(a)] = b[Len(b)]
  THEN 1 + CommonSuffix(Slice(a, 1, Len(a) - 1), Slice(b, 1, Len(b) - 1))
  ELSE 0

\* the lines of a hunk, each with its one-character tag and a line feed
Tagged(tag, lines) == Concat([k \in 1..Len(lines) |-> <<tag>> \o lines[k] \o <<LF>>])

\* a validated path printed as text
RECURSIVE PathText(_)
PathText(p) == IF p = <<>> THEN <<>> ELSE <<"/", Head(p)>> \o PathText(Tail(p))

createTwoFilesPatch(name, oldStr, newStr) ==
  LET a == SplitLines(oldStr)
      b == SplitLines(newStr)
      pre == CommonPrefix(a, b)
      suf == CommonSuffix(Rest(a, pre + 1), Rest(b, pre + 1))
      del == Slice(a, pre + 1, Len(a) - suf)
      ins == Slice(b, pre + 1, Len(b) - suf)
      lead == Slice(a, Max(1, pre - DiffContext + 1), pre)
      trail == Slice(a, Len(a) - suf + 1, Len(a) - suf + (IF suf < DiffContext THEN suf ELSE DiffContext))
      header == <<"Index: ">> \o name \o <<LF, "=====", LF>>
                \o <<"--- ">> \o name \o <<TAB, "original", LF>>
                \o <<"+++ ">> \o name \o <<TAB, "modified", LF>>
  IN IF del = <<>> /\ ins = <<>> THEN header
     ELSE header
          \o <<"@@ -", ToString(pre - Len(lead) + 1), ",", ToString(Len(lead) + Len(del) + Len(trail)),
               " +", ToString(pre - Len(lead) + 1), ",", ToString(Len(lead) + Len(ins) + Len(trail)),
               " @@", LF>>
          \o Tagged(SP, lead) \o Tagged("-", del) \o Tagged("+", ins) \o Tagged(SP, trail)

createUnifiedDiff(originalContent, newContent, filepath) ==
  createTwoFilesPatch(PathText(filepath),
                      normalizeLineEndings(originalContent),
                      normalizeLineEndings(newContent))

\* let numBackticks = 3; while (diff.includes(fence)) numBackticks++
RECURSIVE NumBackticks(_, _)
NumBackticks(diff, n) ==
  IF Includes(diff, Repeat(TICK, n)) THEN NumBackticks(diff, n + 1) ELSE n

FormattedDiff(content, modifiedContent, filePath) ==
  LET diff == createUnifiedDiff(content, modifiedContent, filePath)
      fence == Repeat(TICK, NumBackticks(diff, 3))
  IN fence \o <<"diff", LF>> \o diff \o fence \o <<LF, LF>>


(***************************************************************************)
(* Paths and the filesystem                                                *)
(***************************************************************************)
\* the allowed root directories handed to every handler
AllowedRoots == {<<"sandbox">>}

\* the canonical absolute paths of the modelled filesystem
Universe ==
  {<<>>, <<"sandbox">>, <<"etc">>, <<"sandbox", "sub">>,
   <<"sandbox", "a">>, <<"sandbox", "ENOENT">>,
   <<"sandbox", "sub", "a">>, <<"sandbox", "sub", "ENOENT">>, <<"etc", "a">>}

NoNode == [kind |-> "none", content |-> <<>>]
DirNode == [kind |-> "dir", content |-> <<>>]
FileNode(c) == [kind |-> "file", content |-> c]

\* the node at a canonical path; nothing exists outside the universe
Node(f, p) == IF p \in DOMAIN f THEN f[p] ELSE NoNode

Exists(f, p) == Node(f, p).kind # "none"

\* path.normalize on the segments of an absolute path
RECURSIVE Canon(_, _)
Canon(done, todo) ==
  IF todo = <<>> THEN done
  ELSE IF Head(todo) = ".."
       THEN Canon(Slice(done, 1, Len(done) - 1), Tail(todo))
       ELSE Canon(Append(done, Head(todo)), Tail(todo))

\* path.dirname
Dirname(p) == Slice(p, 1, Len(p) - 1)

\* path.join(directory, name), where name may itself hold separators
PathJoin(directory, name) == Canon(<<>>, directory \o name)

IsPrefix(a, b) == Len(a) <= Len(b) /\ Slice(b, 1, Len(a)) = a

(***************************************************************************)
(* Failures.  kind names the throw statement, code is the errno code of a  *)
(* filesystem error ("" when the error has none), msg is the message.      *)
(***************************************************************************)
Err(kind, code, msg) == [kind |-> kind, code |-> code, msg |-> msg]

FsError(code, call, p) ==
  Err("IOFailure", code, <<code, ": ", call, " ">> \o PathText(p))

\* msg.includes('ENOENT'): the pieces of text that hold the letters ENOENT
Includes_ENOENT(msg) == \E i \in 1..Len(msg) : msg[i] = "ENOENT"

(***************************************************************************)
(* PathSandbox: validatePath lives in path-utils, which is not among the   *)
(* sources; it is modelled from section 4.1 of the specification, on a     *)
(* filesystem without symbolic links.                                      *)
(***************************************************************************)
InsideRoots(p) == \E root \in AllowedRoots : IsPrefix(root, p)

validatePath(f, requested, checkParentExists) ==
  LET canonical == Canon(<<>>, requested)
  IN IF ~InsideRoots(canonical)
     THEN [ok |-> FALSE, path |-> canonical,
           err |-> Err("PathRejected", "", <<"Access denied - path outside allowed directories">>)]
     ELSE IF checkParentExists /\ Node(f, Dirname(canonical)).kind # "dir"
          THEN [ok |-> FALSE, path |-> canonical,
                err |-> Err("PathRejected", "", <<"Parent directory does not exist">>)]
          ELSE [ok |-> TRUE, path |-> canonical, err |-> Err("", "", <<>>)]

(***************************************************************************)
(* The fs/promises calls the handlers issue                                *)
(***************************************************************************)
NoErr == Err("", "", <<>>)

\* fs.access(p)
FsAccess(f, p) ==
  IF Exists(f, p) THEN [ok |-> TRUE, err |-> NoErr]
  ELSE [ok |-> FALSE, err |-> FsError("ENOENT", "access", p)]

\* fs.stat(p): the size in bytes
FsStat(f, p) ==
  IF Exists(f, p) THEN [ok |-> TRUE, size |-> Len(Node(f, p).content), err |-> NoErr]
  ELSE [ok |-> FALSE, size |-> 0, err |-> FsError("ENOENT", "stat", p)]

\* fs.readFile(p, "utf-8")
FsReadFile(f, p) ==
  CASE Node(f, p).kind = "file" -> [ok |-> TRUE, content |-> Node(f, p).content, err |-> NoErr]
    [] Node(f, p).kind = "dir" -> [ok |-> FALSE, content |-> <<>>, err |-> FsError("EISDIR", "read", p)]
    [] OTHER -> [ok |-> FALSE, content |-> <<>>, err |-> FsError("ENOENT", "open", p)]

\* a write that opens the file for appending
FsWriteFileAppending(f, p, content) ==
  CASE Node(f, p).kind = "dir" -> [ok |-> FALSE, fs |-> f, err |-> FsError("EISDIR", "open", p)]
    [] p \notin DOMAIN f \/ Node(f, Dirname(p)).kind # "dir" ->
         [ok |-> FALSE, fs |-> f, err |-> FsError("ENOENT", "open", p)]
    [] OTHER -> [ok |-> TRUE,
                 fs |-> [f EXCEPT ![p] = FileNode(IF Node(f, p).kind = "file"
                                                    THEN Node(f, p).content \o content
                                                    ELSE content)],
                 err |-> NoErr]

\* fs.writeFile(p, content, "utf-8"): creates or replaces the file
FsWriteFile(f, p, content) ==
  CASE Node(f, p).kind = "dir" -> [ok |-> FALSE, fs |-> f, err |-> FsError("EISDIR", "open", p)]
    [] p \notin DOMAIN f \/ Node(f, Dirname(p)).kind # "dir" ->
         [ok |-> FALSE, fs |-> f, err |-> FsError("ENOENT", "open", p)]
    [] OTHER -> [ok |-> TRUE, fs |-> [f EXCEPT ![p] = FileNode(content)], err |-> NoErr]

\* fs.mkdir(dir, { recursive: true }): dir and its missing ancestors
FsMkdir(f, dir) ==
  LET chain == {q \in DOMAIN f : IsPrefix(q, dir)}
  IN IF dir \notin DOMAIN f \/ \E q \in chain : f[q].kind = "file"
     THEN [ok |-> FALSE, fs |-> f, err |-> FsError("ENOTDIR", "mkdir", dir)]
     ELSE [ok |-> TRUE, fs |-> [q \in DOMAIN f |-> IF q \in chain THEN DirNode ELSE f[q]],
           err |-> NoErr]

\* fs.rename(from, to) on files: an existing file at the destination is replaced
FsRename(f, from, to) ==
  CASE ~Exists(f, from) -> [ok |-> FALSE, fs |-> f, err |-> FsError("ENOENT", "rename", from)]
    [] to \notin DOMAIN f \/ Node(f, Dirname(to)).kind # "dir" ->
         [ok |-> FALSE, fs |-> f, err |-> FsError("ENOENT", "rename", from)]
    [] Node(f, to).kind = "dir" -> [ok |-> FALSE, fs |-> f, err |-> FsError("EISDIR", "rename", from)]
    [] from = to -> [ok |-> TRUE, fs |-> f, err |-> NoErr]
    [] OTHER -> [ok |-> TRUE, fs |-> [f EXCEPT ![to] = f[from], ![from] = NoNode], err |-> NoErr]

\* fs.unlink(p)
FsUnlink(f, p) ==
  CASE Node(f, p).kind = "file" -> [ok |-> TRUE, fs |-> [f EXCEPT ![p] = NoNode], err |-> NoErr]
    [] Node(f, p).kind = "dir" -> [ok |-> FALSE, fs |-> f, err |-> FsError("EISDIR", "unlink", p)]
    [] OTHER -> [ok |-> FALSE, fs |-> f, err |-> FsError("ENOENT", "unlink", p)]


(***************************************************************************)
(* Requests                                                                *)
(***************************************************************************)
Procs == {1}

\* the named booleans of the Permissions object
Flags == {"create", "edit", "move", "delete", "rename", "fullAccess"}

NoPerms == [f \in Flags |-> FALSE]

DefaultMaxBytes == 10 * 1024

NoOut == [status |-> "pending", err |-> NoErr, text |-> <<>>]

\* a request slot: the arguments, the handler's position and locals, the outcome,
\* and for the properties the calls issued, the number of paths validatePath has
\* accepted, the branch each edit took and the filesystem at the request's start
IdleReq(f) ==
  [op |-> "none", path |-> <<>>, dest |-> <<>>, content |-> <<>>, edits |-> <<>>,
   dryRun |-> FALSE, maxBytes |-> <<>>, paths |-> <<>>,
   pc |-> "idle", validPath |-> <<>>, validDest |-> <<>>,
   original |-> <<>>, buf |-> <<>>, idx |-> 0, sub |-> <<>>,
   out |-> NoOut, calls |-> <<>>, accepted |-> 0, hows |-> <<>>, fs0 |-> f]

Step(r, rec) == req' = [req EXCEPT ![r] = rec]

Called(rec, call) == [rec EXCEPT !.calls = Append(@, call)]

Failed(rec, e) ==
  [rec EXCEPT !.pc = "done", !.out = [status |-> "error", err |-> e, text |-> <<>>]]

Succeeded(rec, text) ==
  [rec EXCEPT !.pc = "done", !.out = [status |-> "ok", err |-> NoErr, text |-> text]]

Accepted(rec) == [rec EXCEPT !.accepted = @ + 1]

\* a check that any granted flag satisfies
GrantedByAnyFlag(flag) == \E f \in Flags : perms[f]

\* permissions.<flag> || permissions.fullAccess
Granted(flag) == perms[flag] \/ perms.fullAccess

\* maxBytes ?? (10 * 1024)
EffectiveMaxBytes(maxBytes) == IF maxBytes = <<>> THEN DefaultMaxBytes ELSE maxBytes[1]

\* a comparison that also rejects a file of exactly the maximum size
TooLargeOrEqual(size, maxBytes) == size >= EffectiveMaxBytes(maxBytes)

\* stats.size > effectiveMaxBytes
TooLarge(size, maxBytes) == size > EffectiveMaxBytes(maxBytes)

SizeLimitError(size, maxBytes, tail) ==
  Err("SizeLimitExceeded", "",
      <<"File size (", ToString(size), " bytes) exceeds the maximum allowed size (",
        ToString(EffectiveMaxBytes(maxBytes)), " bytes)", tail>>)

PermissionError(flag, text) == Err("PermissionDenied", "", <<text, flag>>)

(***************************************************************************)
(* handleReadFile                                                          *)
(***************************************************************************)
RF_Validate(r) ==
  LET rec == req[r]
      v == validatePath(fs, rec.path, TRUE)
  IN /\ rec.op = "read_file" /\ rec.pc = "start"
     /\ Step(r, IF v.ok
                THEN [Accepted(rec) EXCEPT !.pc = "stat", !.validPath = v.path]
                ELSE Failed(rec, v.err))
     /\ UNCHANGED <<perms, fs, served, prev>>

RF_Stat(r) ==
  LET rec == Called(req[r], "stat")
      st == FsStat(fs, rec.validPath)
  IN /\ rec.op = "read_file" /\ rec.pc = "stat"
     /\ Step(r, IF ~st.ok THEN Failed(rec, st.err)
                ELSE IF TooLarge(st.size, rec.maxBytes)
                     THEN Failed(rec, SizeLimitError(st.size, rec.maxBytes, "."))
                     ELSE [rec EXCEPT !.pc = "read"])
     /\ UNCHANGED <<perms, fs, served, prev>>

RF_Read(r) ==
  LET rec == Called(req[r], "readFile")
      rd == FsReadFile(fs, rec.validPath)
  IN /\ rec.op = "read_file" /\ rec.pc = "read"
     /\ Step(r, IF rd.ok THEN Succeeded(rec, rd.content) ELSE Failed(rec, rd.err))
     /\ UNCHANGED <<perms, fs, served, prev>>

(***************************************************************************)
(* handleReadMultipleFiles: one task per path, run by Promise.all          *)
(***************************************************************************)
\* an error entry that leaves out the requested path
ErrorEntryWithoutPath(filePath, msg) == <<"Error - ">> \o msg

ErrorEntry(filePath, msg) == PathText(filePath) \o <<": Error - ">> \o msg

ContentEntry(filePath, content) == PathText(filePath) \o <<":", LF>> \o content \o <<LF>>

SubDone(rec, i, entry) == [rec EXCEPT !.sub[i] = [@ EXCEPT !.pc = "done", !.entry = entry]]

RM_Validate(r, i) ==
  LET rec == req[r]
      v == validatePath(fs, rec.paths[i], TRUE)
  IN /\ rec.op = "read_multiple_files" /\ rec.pc = "tasks"
     /\ rec.sub[i].pc = "start"
     /\ Step(r, IF v.ok
                THEN [rec EXCEPT !.sub[i] = [@ EXCEPT !.pc = "stat", !.validPath = v.path,
                                                      !.accepted = TRUE]]
                ELSE SubDone(rec, i, ErrorEntry(rec.paths[i], v.err.msg)))
     /\ UNCHANGED <<perms, fs, served, prev>>

RM_Stat(r, i) ==
  LET rec == [req[r] EXCEPT !.sub[i].calls = Append(@, "stat")]
      st == FsStat(fs, rec.sub[i].validPath)
  IN /\ rec.op = "read_multiple_files" /\ rec.pc = "tasks"
     /\ rec.sub[i].pc = "stat"
     /\ Step(r, IF ~st.ok THEN SubDone(rec, i, ErrorEntry(rec.paths[i], st.err.msg))
                ELSE IF TooLarge(st.size, rec.maxBytes)
                     THEN SubDone(rec, i,
                                  ErrorEntry(rec.paths[i],
                                             SizeLimitError(st.size, rec.maxBytes, ".").msg))
                     ELSE [rec EXCEPT !.sub[i].pc = "read"])
     /\ UNCHANGED <<perms, fs, served, prev>>

RM_Read(r, i) ==
  LET rec == [req[r] EXCEPT !.sub[i].calls = Append(@, "readFile")]
      rd == FsReadFile(fs, rec.sub[i].validPath)
  IN /\ rec.op = "read_multiple_files" /\ rec.pc = "tasks"
     /\ rec.sub[i].pc = "read"
     /\ Step(r, IF rd.ok THEN SubDone(rec, i, ContentEntry(rec.paths[i], rd.content))
                ELSE SubDone(rec, i, ErrorEntry(rec.paths[i], rd.err.msg)))
     /\ UNCHANGED <<perms, fs, served, prev>>

\* results.join("\n---\n")
RECURSIVE JoinEntries(_)
JoinEntries(entries) ==
  IF entries = <<>> THEN <<>>
  ELSE IF Len(entries) = 1 THEN entries[1]
       ELSE entries[1] \o <<LF, "---", LF>> \o JoinEntries(Tail(entries))

\* Promise.all resolves once every task has returned its entry
RM_Join(r) ==
  LET rec == req[r]
  IN /\ rec.op = "read_multiple_files" /\ rec.pc = "tasks"
     /\ \A i \in 1..Len(rec.sub) : rec.sub[i].pc = "done"
     /\ Step(r, Succeeded(rec, JoinEntries([i \in 1..Len(rec.sub) |-> rec.sub[i].entry])))
     /\ UNCHANGED <<perms, fs, served, prev>>


(***************************************************************************)
(* handleCreateFile                                                        *)
(***************************************************************************)
CF_Validate(r) ==
  LET rec == req[r]
      v == validatePath(fs, rec.path, FALSE)
  IN /\ rec.op = "create_file" /\ rec.pc = "start"
     /\ Step(r, IF v.ok
                THEN [Accepted(rec) EXCEPT !.pc = "access", !.validPath = v.path]
                ELSE Failed(rec, v.err))
     /\ UNCHANGED <<perms, fs, served, prev>>

\* what the try block throws: the probe's own error, or after a probe that
\* succeeded the handler's File already exists error
CreateProbeError(probe, requested) ==
  IF probe.ok
  THEN Err("AlreadyExists", "", <<"File already exists: ">> \o PathText(requested))
  ELSE probe.err

\* the catch block's test: anything whose message lacks ENOENT is thrown again
CreateRethrows(error) == ~Includes_ENOENT(error.msg)

CF_Access(r) ==
  LET rec == Called(req[r], "access")
      error == CreateProbeError(FsAccess(fs, rec.validPath), rec.path)
  IN /\ rec.op = "create_file" /\ rec.pc = "access"
     /\ Step(r, IF CreateRethrows(error) THEN Failed(rec, error)
                ELSE IF ~Granted("create")
                     THEN Failed(rec, PermissionError("create",
                            "Cannot create new file: create permission not granted (requires --allow-create)"))
                     ELSE [rec EXCEPT !.pc = "mkdir"])
     /\ UNCHANGED <<perms, fs, served, prev>>

CF_Mkdir(r) ==
  LET rec == Called(req[r], "mkdir")
      mk == FsMkdir(fs, Dirname(rec.validPath))
  IN /\ rec.op = "create_file" /\ rec.pc = "mkdir"
     /\ fs' = mk.fs
     /\ Step(r, IF mk.ok THEN [rec EXCEPT !.pc = "write"] ELSE Failed(rec, mk.err))
     /\ UNCHANGED <<perms, served, prev>>

CF_Write(r) ==
  LET rec == Called(req[r], "writeFile")
      wr == FsWriteFile(fs, rec.validPath, rec.content)
  IN /\ rec.op = "create_file" /\ rec.pc = "write"
     /\ fs' = wr.fs
     /\ Step(r, IF wr.ok
                THEN Succeeded(rec, <<"Successfully created ">> \o PathText(rec.path))
                ELSE Failed(rec, wr.err))
     /\ UNCHANGED <<perms, served, prev>>

(***************************************************************************)
(* handleModifyFile                                                        *)
(***************************************************************************)
MF_Validate(r) ==
  LET rec == req[r]
      v == validatePath(fs, rec.path, TRUE)
  IN /\ rec.op = "modify_file" /\ rec.pc = "start"
     /\ Step(r, IF v.ok
                THEN [Accepted(rec) EXCEPT !.pc = "access", !.validPath = v.path]
                ELSE Failed(rec, v.err))
     /\ UNCHANGED <<perms, fs, served, prev>>

\* the catch block around the whole try: whatever was thrown is replaced
ModifyCatch(error) == Err("NotFound", "", <<"Cannot modify file: file does not exist">>)

MF_Access(r) ==
  LET rec == Called(req[r], "access")
      probe == FsAccess(fs, rec.validPath)
  IN /\ rec.op = "modify_file" /\ rec.pc = "access"
     /\ Step(r, IF ~probe.ok THEN Failed(rec, ModifyCatch(probe.err))
                ELSE IF ~Granted("edit")
                     THEN Failed(rec, ModifyCatch(PermissionError("edit",
                            "Cannot modify file: edit permission not granted (requires --allow-edit)")))
                     ELSE [rec EXCEPT !.pc = "write"])
     /\ UNCHANGED <<perms, fs, served, prev>>

MF_Write(r) ==
  LET rec == Called(req[r], "writeFile")
      wr == FsWriteFile(fs, rec.validPath, rec.content)
  IN /\ rec.op = "modify_file" /\ rec.pc = "write"
     /\ fs' = wr.fs
     /\ Step(r, IF wr.ok
                THEN Succeeded(rec, <<"Successfully modified ">> \o PathText(rec.path))
                ELSE Failed(rec, ModifyCatch(wr.err)))
     /\ UNCHANGED <<perms, served, prev>>

(***************************************************************************)
(* handleEditFile and applyFileEdits                                       *)
(***************************************************************************)
EF_Validate(r) ==
  LET rec == req[r]
      v == validatePath(fs, rec.path, TRUE)
  IN /\ rec.op = "edit_file" /\ rec.pc = "start"
     /\ Step(r, IF ~Granted("edit")
                THEN Failed(rec, PermissionError("edit",
                       "Cannot edit file: edit permission not granted (requires --allow-edit)"))
                ELSE IF v.ok
                     THEN [Accepted(rec) EXCEPT !.pc = "stat", !.validPath = v.path]
                     ELSE Failed(rec, v.err))
     /\ UNCHANGED <<perms, fs, served, prev>>

EF_Stat(r) ==
  LET rec == Called(req[r], "stat")
      st == FsStat(fs, rec.validPath)
  IN /\ rec.op = "edit_file" /\ rec.pc = "stat"
     /\ Step(r, IF ~st.ok THEN Failed(rec, st.err)
                ELSE IF TooLarge(st.size, rec.maxBytes)
                     THEN Failed(rec, SizeLimitError(st.size, rec.maxBytes, " for editing."))
                     ELSE [rec EXCEPT !.pc = "read"])
     /\ UNCHANGED <<perms, fs, served, prev>>

\* applyFileEdits: const content = normalizeLineEndings(await fs.readFile(...))
EF_Read(r) ==
  LET rec == Called(req[r], "readFile")
      rd == FsReadFile(fs, rec.validPath)
  IN /\ rec.op = "edit_file" /\ rec.pc = "read"
     /\ Step(r, IF ~rd.ok THEN Failed(rec, rd.err)
                ELSE [rec EXCEPT !.pc = "edits", !.idx = 1,
                                 !.original = normalizeLineEndings(rd.content),
                                 !.buf = normalizeLineEndings(rd.content)])
     /\ UNCHANGED <<perms, fs, served, prev>>

\* a loop that goes on to the next edit when nothing matched
EditNeverThrows(applied) == FALSE

\* if (!matchFound) throw
EditThrows(applied) == applied.how = "none"

MatchError(edit) ==
  Err("MatchFailure", "", <<"Could not find exact match for edit:", LF>> \o edit.oldText)

\* one iteration of for (const edit of edits)
EF_Edit(r) ==
  LET rec == req[r]
      edit == rec.edits[rec.idx]
      applied == ApplyOneEdit(rec.buf, edit)
      noted == [rec EXCEPT !.hows = Append(@, applied.how)]
  IN /\ rec.op = "edit_file" /\ rec.pc = "edits"
     /\ rec.idx <= Len(rec.edits)
     /\ Step(r, IF EditThrows(applied) THEN Failed(noted, MatchError(edit))
                ELSE [noted EXCEPT !.buf = applied.content, !.idx = @ + 1])
     /\ UNCHANGED <<perms, fs, served, prev>>

\* a write that ignores the dryRun flag
WritesBackAlways(dryRun) == TRUE

\* if (!dryRun) await fs.writeFile(filePath, modifiedContent, "utf-8")
WritesBack(dryRun) == ~dryRun

\* after the loop: the diff, the write unless a dry run, the formatted diff returned
EF_Finish(r) ==
  LET rec == req[r]
      formattedDiff == FormattedDiff(rec.original, rec.buf, rec.validPath)
      wr == FsWriteFile(fs, rec.validPath, rec.buf)
  IN /\ rec.op = "edit_file" /\ rec.pc = "edits"
     /\ rec.idx > Len(rec.edits)
     /\ IF WritesBack(rec.dryRun)
        THEN /\ fs' = wr.fs
             /\ Step(r, IF wr.ok THEN Succeeded(Called(rec, "writeFile"), formattedDiff)
                        ELSE Failed(Called(rec, "writeFile"), wr.err))
        ELSE /\ fs' = fs
             /\ Step(r, Succeeded(rec, formattedDiff))
     /\ UNCHANGED <<perms, served, prev>>

(***************************************************************************)
(* handleGetFileInfo                                                       *)
(***************************************************************************)
GI_Validate(r) ==
  LET rec == req[r]
      v == validatePath(fs, rec.path, TRUE)
  IN /\ rec.op = "get_file_info" /\ rec.pc = "start"
     /\ Step(r, IF v.ok
                THEN [Accepted(rec) EXCEPT !.pc = "stat", !.validPath = v.path]
                ELSE Failed(rec, v.err))
     /\ UNCHANGED <<perms, fs, served, prev>>

\* getFileStats, printed as key: value lines
GI_Stat(r) ==
  LET rec == Called(req[r], "stat")
      st == FsStat(fs, rec.validPath)
      node == Node(fs, rec.validPath)
  IN /\ rec.op = "get_file_info" /\ rec.pc = "stat"
     /\ Step(r, IF ~st.ok THEN Failed(rec, st.err)
                ELSE Succeeded(rec, <<"size: ", ToString(st.size), LF,
                                      "isDirectory: ", ToString(node.kind = "dir"), LF,
                                      "isFile: ", ToString(node.kind = "file")>>))
     /\ UNCHANGED <<perms, fs, served, prev>>


(***************************************************************************)
(* handleMoveFile                                                          *)
(***************************************************************************)
MV_ValidateSrc(r) ==
  LET rec == req[r]
      v == validatePath(fs, rec.path, TRUE)
  IN /\ rec.op = "move_file" /\ rec.pc = "start"
     /\ Step(r, IF ~Granted("move")
                THEN Failed(rec, PermissionError("move",
                       "Cannot move file: move permission not granted (requires --allow-move)"))
                ELSE IF v.ok
                     THEN [Accepted(rec) EXCEPT !.pc = "validateDest", !.validPath = v.path]
                     ELSE Failed(rec, v.err))
     /\ UNCHANGED <<perms, fs, served, prev>>

\* a handler that probes the destination's parent before validating the destination
MV_ProbeBeforeValidateDst(r) ==
  LET rec == Called(req[r], "access")
      v == validatePath(fs, rec.dest, FALSE)
  IN /\ rec.op = "move_file" /\ rec.pc = "validateDest"
     /\ Step(r, IF v.ok
                THEN [Accepted(rec) EXCEPT !.pc = "access", !.validDest = v.path]
                ELSE Failed(rec, v.err))
     /\ UNCHANGED <<perms, fs, served, prev>>

MV_ValidateDst(r) ==
  LET rec == req[r]
      v == validatePath(fs, rec.dest, FALSE)
  IN /\ rec.op = "move_file" /\ rec.pc = "validateDest"
     /\ Step(r, IF v.ok
                THEN [Accepted(rec) EXCEPT !.pc = "access", !.validDest = v.path]
                ELSE Failed(rec, v.err))
     /\ UNCHANGED <<perms, fs, served, prev>>

\* a handler that goes on to the rename whatever the probe answered
MV_AccessUnchecked(r) ==
  LET rec == Called(req[r], "access")
  IN /\ rec.op = "move_file" /\ rec.pc = "access"
     /\ Step(r, [rec EXCEPT !.pc = "rename"])
     /\ UNCHANGED <<perms, fs, served, prev>>

\* the probe of the destination's parent directory
MV_Access(r) ==
  LET rec == Called(req[r], "access")
      probe == FsAccess(fs, Dirname(rec.validDest))
  IN /\ rec.op = "move_file" /\ rec.pc = "access"
     /\ Step(r, IF probe.ok THEN [rec EXCEPT !.pc = "rename"]
                ELSE Failed(rec, Err("DestParentMissing", "",
                              <<"Destination parent directory does not exist: ">>
                              \o PathText(Dirname(rec.dest)))))
     /\ UNCHANGED <<perms, fs, served, prev>>

MV_Rename(r) ==
  LET rec == Called(req[r], "rename")
      mv == FsRename(fs, rec.validPath, rec.validDest)
  IN /\ rec.op = "move_file" /\ rec.pc = "rename"
     /\ fs' = mv.fs
     /\ Step(r, IF mv.ok
                THEN Succeeded(rec, <<"Successfully moved ">> \o PathText(rec.path)
                                    \o <<" to ">> \o PathText(rec.dest))
                ELSE Failed(rec, mv.err))
     /\ UNCHANGED <<perms, served, prev>>

(***************************************************************************)
(* handleDeleteFile                                                        *)
(***************************************************************************)
DF_Validate(r) ==
  LET rec == req[r]
      v == validatePath(fs, rec.path, TRUE)
  IN /\ rec.op = "delete_file" /\ rec.pc = "start"
     /\ Step(r, IF ~Granted("delete")
                THEN Failed(rec, PermissionError("delete",
                       "Cannot delete file: delete permission not granted (requires --allow-delete)"))
                ELSE IF v.ok
                     THEN [Accepted(rec) EXCEPT !.pc = "access", !.validPath = v.path]
                     ELSE Failed(rec, v.err))
     /\ UNCHANGED <<perms, fs, served, prev>>

\* the catch block: Failed to delete file: <message>
DeleteCatch(error) == Err("DeleteFailed", "", <<"Failed to delete file: ">> \o error.msg)

DF_Access(r) ==
  LET rec == Called(req[r], "access")
      probe == FsAccess(fs, rec.validPath)
  IN /\ rec.op = "delete_file" /\ rec.pc = "access"
     /\ Step(r, IF probe.ok THEN [rec EXCEPT !.pc = "unlink"]
                ELSE Failed(rec, DeleteCatch(probe.err)))
     /\ UNCHANGED <<perms, fs, served, prev>>

DF_Unlink(r) ==
  LET rec == Called(req[r], "unlink")
      ul == FsUnlink(fs, rec.validPath)
  IN /\ rec.op = "delete_file" /\ rec.pc = "unlink"
     /\ fs' = ul.fs
     /\ Step(r, IF ul.ok
                THEN Succeeded(rec, <<"Successfully deleted ">> \o PathText(rec.path))
                ELSE Failed(rec, DeleteCatch(ul.err)))
     /\ UNCHANGED <<perms, served, prev>>

(***************************************************************************)
(* handleRenameFile                                                        *)
(***************************************************************************)
\* path.join(path.dirname(validSourcePath), parsed.data.newName)
RenameDestination(validSourcePath, newName) == PathJoin(Dirname(validSourcePath), newName)

RN_ValidateSrc(r) ==
  LET rec == req[r]
      v == validatePath(fs, rec.path, TRUE)
  IN /\ rec.op = "rename_file" /\ rec.pc = "start"
     /\ Step(r, IF ~Granted("rename")
                THEN Failed(rec, PermissionError("rename",
                       "Cannot rename file: rename permission not granted (requires --allow-rename)"))
                ELSE IF v.ok
                     THEN [Accepted(rec) EXCEPT !.pc = "validateDest", !.validPath = v.path]
                     ELSE Failed(rec, v.err))
     /\ UNCHANGED <<perms, fs, served, prev>>

RN_ValidateDst(r) ==
  LET rec == req[r]
      v == validatePath(fs, RenameDestination(rec.validPath, rec.dest), TRUE)
  IN /\ rec.op = "rename_file" /\ rec.pc = "validateDest"
     /\ Step(r, IF v.ok
                THEN [Accepted(rec) EXCEPT !.pc = "access", !.validDest = v.path]
                ELSE Failed(rec, v.err))
     /\ UNCHANGED <<perms, fs, served, prev>>

\* what the try block throws: the probe's own error, or after a probe that
\* succeeded the handler's error, which carries no code
RenameProbeError(probe, newName) ==
  IF probe.ok
  THEN Err("AlreadyExists", "",
           <<"Cannot rename file: a file with name ">> \o newName
           \o <<" already exists in the directory">>)
  ELSE probe.err

\* the catch block's test: (error as NodeJS.ErrnoException).code !== 'ENOENT'
RenameRethrows(error) == error.code # "ENOENT"

RN_Access(r) ==
  LET rec == Called(req[r], "access")
      error == RenameProbeError(FsAccess(fs, rec.validDest), rec.dest)
  IN /\ rec.op = "rename_file" /\ rec.pc = "access"
     /\ Step(r, IF RenameRethrows(error) THEN Failed(rec, error)
                ELSE [rec EXCEPT !.pc = "rename"])
     /\ UNCHANGED <<perms, fs, served, prev>>

RN_Rename(r) ==
  LET rec == Called(req[r], "rename")
      mv == FsRename(fs, rec.validPath, rec.validDest)
  IN /\ rec.op = "rename_file" /\ rec.pc = "rename"
     /\ fs' = mv.fs
     /\ Step(r, IF mv.ok
                THEN Succeeded(rec, <<"Successfully renamed ">> \o PathText(rec.path)
                                    \o <<" to ">> \o rec.dest)
                ELSE Failed(rec, mv.err))
     /\ UNCHANGED <<perms, served, prev>>


(***************************************************************************)
(* The requests a caller may send                                          *)
(***************************************************************************)
MaxRequests == 2
MaxPaths == 2
MaxEdits == 2

\* the permission sets tried: nothing granted, or exactly one flag
PermSets == {NoPerms} \cup {[NoPerms EXCEPT ![f] = TRUE] : f \in Flags}

\* requested path strings, as given: three inside the sandbox, one that leaves it
ReqPaths ==
  {<<"sandbox", "a">>, <<"sandbox", "ENOENT">>, <<"sandbox", "sub", "a">>,
   <<"sandbox", "..", "etc", "a">>}

\* newName strings: two plain names and two that hold separators
NewNames == {<<"ENOENT">>, <<"a">>, <<"sub", "a">>, <<"..", "ENOENT">>}

FileContents == {<<"a">>, <<"a", "b">>}

MaxBytesChoices == {<<>>, <<1>>}

Edit(old, new) == [oldText |-> old, newText |-> new]

\* sequences over S of length at most n
SeqsUpTo(S, n) == UNION {[1..k -> S] : k \in 0..n}

HandlerEditLists ==
  {<<Edit(<<"a">>, <<"b">>)>>,
   <<Edit(<<"a">>, <<"b">>), Edit(<<"b">>, <<"a", "a">>)>>,
   <<Edit(<<"a">>, <<"b">>), Edit(<<"a", "a">>, <<"b">>)>>}

Args(op, path, dest, content, edits, dryRun, maxBytes, paths) ==
  [op |-> op, path |-> path, dest |-> dest, content |-> content, edits |-> edits,
   dryRun |-> dryRun, maxBytes |-> maxBytes, paths |-> paths]

Requests ==
  {Args("read_file", p, <<>>, <<>>, <<>>, FALSE, m, <<>>) :
     p \in ReqPaths, m \in MaxBytesChoices}
  \cup {Args("read_multiple_files", <<>>, <<>>, <<>>, <<>>, FALSE, m, ps) :
     m \in MaxBytesChoices, ps \in SeqsUpTo(ReqPaths \ {<<"sandbox", "sub", "a">>}, MaxPaths)}
  \cup {Args(op, p, <<>>, c, <<>>, FALSE, <<>>, <<>>) :
     op \in {"create_file", "modify_file"}, p \in ReqPaths, c \in FileContents}
  \cup {Args("edit_file", p, <<>>, <<>>, es, d, m, <<>>) :
     p \in ReqPaths, es \in HandlerEditLists, d \in BOOLEAN, m \in MaxBytesChoices}
  \cup {Args(op, p, <<>>, <<>>, <<>>, FALSE, <<>>, <<>>) :
     op \in {"get_file_info", "delete_file"}, p \in ReqPaths}
  \cup {Args("move_file", p, q, <<>>, <<>>, FALSE, <<>>, <<>>) :
     p \in ReqPaths, q \in ReqPaths}
  \cup {Args("rename_file", p, n, <<>>, <<>>, FALSE, <<>>, <<>>) :
     p \in ReqPaths, n \in NewNames}

\* the dispatcher hands a schema-valid request to its handler
Started(a, f) ==
  [IdleReq(f) EXCEPT
     !.op = a.op, !.path = a.path, !.dest = a.dest, !.content = a.content,
     !.edits = a.edits, !.dryRun = a.dryRun, !.maxBytes = a.maxBytes, !.paths = a.paths,
     !.pc = IF a.op = "read_multiple_files" THEN "tasks" ELSE "start",
     !.sub = [i \in 1..Len(a.paths) |->
                [pc |-> "start", validPath |-> <<>>, entry |-> <<>>,
                 calls |-> <<>>, accepted |-> FALSE]]]

ArgsOf(rec) ==
  Args(rec.op, rec.path, rec.dest, rec.content, rec.edits, rec.dryRun, rec.maxBytes, rec.paths)

\* requests are served one after the other
NewRequest(r) ==
  /\ req[r].pc \in {"idle", "done"}
  /\ served < MaxRequests
  /\ \E a \in Requests : Step(r, Started(a, fs))
  /\ served' = served + 1
  /\ UNCHANGED <<perms, fs, prev>>

(***************************************************************************)
(* The filesystems a run starts from                                       *)
(***************************************************************************)
EmptyFs ==
  [p \in Universe |->
     IF p \in {<<>>, <<"sandbox">>, <<"etc">>} THEN DirNode
     ELSE IF p = <<"etc", "a">> THEN FileNode(<<"a">>)
     ELSE NoNode]

\* two files side by side, no subdirectory
FlatFs ==
  [EmptyFs EXCEPT ![<<"sandbox", "a">>] = FileNode(<<"a", "b">>),
                  ![<<"sandbox", "ENOENT">>] = FileNode(<<"a">>)]

\* a subdirectory with a file in it
DeepFs ==
  [EmptyFs EXCEPT ![<<"sandbox", "a">>] = FileNode(<<"a">>),
                  ![<<"sandbox", "sub">>] = DirNode,
                  ![<<"sandbox", "sub", "a">>] = FileNode(<<"a", "b">>)]

Init ==
  /\ perms \in PermSets
  /\ fs \in {FlatFs, DeepFs}
  /\ req = [r \in Procs |-> IdleReq(fs)]
  /\ served = 0
  /\ prev = IdleReq(fs)

Next ==
  \E r \in Procs :
    \/ NewRequest(r)
    \/ RF_Validate(r) \/ RF_Stat(r) \/ RF_Read(r)
    \/ \E i \in 1..Len(req[r].sub) : RM_Validate(r, i) \/ RM_Stat(r, i) \/ RM_Read(r, i)
    \/ RM_Join(r)
    \/ CF_Validate(r) \/ CF_Access(r) \/ CF_Mkdir(r) \/ CF_Write(r)
    \/ MF_Validate(r) \/ MF_Access(r) \/ MF_Write(r)
    \/ EF_Validate(r) \/ EF_Stat(r) \/ EF_Read(r) \/ EF_Edit(r) \/ EF_Finish(r)
    \/ GI_Validate(r) \/ GI_Stat(r)
    \/ MV_ValidateSrc(r) \/ MV_ValidateDst(r) \/ MV_Access(r) \/ MV_Rename(r)
    \/ DF_Validate(r) \/ DF_Access(r) \/ DF_Unlink(r)
    \/ RN_ValidateSrc(r) \/ RN_ValidateDst(r) \/ RN_Access(r) \/ RN_Rename(r)

Spec == Init /\ [][Next]_vars

\* every path a handler works on lies in the modelled universe
InUniverse ==
  \A r \in Procs : req[r].validPath \in Universe /\ req[r].validDest \in Universe


(***************************************************************************)
(* The edit engine on its own: one file, one edit_file request and its     *)
(* repetitions with the same arguments                                     *)
(***************************************************************************)
EditTarget == <<"sandbox", "a">>

EditContents ==
  {<<"a", LF, "b", LF>>,
   <<SP, SP, "a", LF>>,
   <<"a", "b", "a">>,
   <<"a", CR, LF, "b">>,
   <<TICK, TICK, TICK, LF, "a">>,
   <<>>}

EditChoices ==
  {Edit(<<"a">>, <<"b">>),
   Edit(<<"b">>, <<"c">>),
   Edit(<<"a", SP>>, <<"c">>),
   Edit(<<"c">>, <<"a">>),
   Edit(<<"b">>, <<DOLLAR, AMP>>),
   Edit(<<"a", LF, "b">>, <<"b">>)}

EditOnly == [NoPerms EXCEPT !["edit"] = TRUE]

InitEdit ==
  /\ perms = EditOnly
  /\ \E c \in EditContents : fs = [EmptyFs EXCEPT ![EditTarget] = FileNode(c)]
  /\ req = [r \in Procs |-> IdleReq(fs)]
  /\ served = 0
  /\ prev = IdleReq(fs)

NewEdit(r) ==
  /\ req[r].pc = "idle"
  /\ served = 0
  /\ \E es \in SeqsUpTo(EditChoices, MaxEdits), d \in BOOLEAN :
       Step(r, Started(Args("edit_file", EditTarget, <<>>, <<>>, es, d, <<>>, <<>>), fs))
  /\ served' = served + 1
  /\ UNCHANGED <<perms, fs, prev>>

\* the caller sends the request it has just had answered once more
Again(r) ==
  /\ req[r].pc = "done"
  /\ served < MaxRequests
  /\ prev' = req[r]
  /\ Step(r, Started(ArgsOf(req[r]), fs))
  /\ served' = served + 1
  /\ UNCHANGED <<perms, fs>>

NextEdit ==
  \E r \in Procs :
    \/ NewEdit(r) \/ Again(r)
    \/ EF_Validate(r) \/ EF_Stat(r) \/ EF_Read(r) \/ EF_Edit(r) \/ EF_Finish(r)

SpecEdit == InitEdit /\ [][NextEdit]_vars

(***************************************************************************)
(* Properties                                                              *)
(***************************************************************************)
Has(calls, c) == \E i \in 1..Len(calls) : calls[i] = c

Count(calls, c) == Cardinality({i \in 1..Len(calls) : calls[i] = c})

MutatingCalls == {"writeFile", "mkdir", "rename", "unlink"}

Mutates(calls) == \E i \in 1..Len(calls) : calls[i] \in MutatingCalls


\* C1: a non-dry-run applyFileEdits writes the stored file at most once and only
\* after every edit of the list has matched; when an edit fails to match, the
\* request fails and the stored file is what it was before the request.
C1_WriteOnlyAfterAllEditsMatched ==
  \A r \in Procs :
    LET rec == req[r]
    IN (rec.op = "edit_file" /\ ~rec.dryRun) =>
         /\ Count(rec.calls, "writeFile") <= 1
         /\ Has(rec.calls, "writeFile") =>
              /\ Len(rec.hows) = Len(rec.edits)
              /\ \A k \in 1..Len(rec.hows) : rec.hows[k] \in {"exact", "fuzzy"}
         /\ fs # rec.fs0 => Has(rec.calls, "writeFile")
         /\ (\E k \in 1..Len(rec.hows) : rec.hows[k] = "none") =>
              /\ rec.pc = "done"
              /\ rec.out.status = "error"
              /\ rec.out.err.kind = "MatchFailure"
              /\ fs = rec.fs0

\* C1's case: the second edit of a real run failed after the first one had
\* changed the buffer, and the stored file still holds the original content
C1_Witness ==
  \E r \in Procs :
    /\ req[r].op = "edit_file" /\ ~req[r].dryRun /\ req[r].pc = "done"
    /\ req[r].hows = <<"exact", "none">>
    /\ req[r].buf # req[r].original
    /\ req[r].out.err.kind = "MatchFailure"
    /\ Node(fs, req[r].validPath).content = req[r].fs0[req[r].validPath].content

\* C6: a dry run never writes, whether its edits match or not, and a second dry
\* run of the same request on the same file returns what the first returned.
C6_DryRunIdempotent ==
  \A r \in Procs :
    LET rec == req[r]
    IN (rec.op = "edit_file" /\ rec.dryRun) =>
         /\ ~Has(rec.calls, "writeFile")
         /\ fs = rec.fs0
         /\ (rec.pc = "done" /\ prev.pc = "done") =>
              /\ ArgsOf(prev) = ArgsOf(rec)
              /\ prev.fs0 = rec.fs0
              /\ prev.out = rec.out

\* C6's case: the second of two dry runs has returned a diff that shows a change
C6_Witness ==
  \E r \in Procs :
    /\ req[r].op = "edit_file" /\ req[r].dryRun /\ req[r].pc = "done"
    /\ prev.pc = "done" /\ prev.dryRun
    /\ req[r].out.status = "ok"
    /\ req[r].buf # req[r].original
    /\ Has(req[r].out.text, "+")
    /\ prev.out.text = req[r].out.text


\* the number of paths a handler hands to validatePath
PathsOf(op) == IF op \in {"move_file", "rename_file"} THEN 2 ELSE 1

\* C2: no handler issues a filesystem call before validatePath has accepted
\* every path of the request (each path's own, for read_multiple_files); a
\* rejected path fails the request, or that path's item, with no call issued and
\* the filesystem unchanged.
C2_NoCallBeforeValidation ==
  \A r \in Procs :
    LET rec == req[r]
    IN /\ rec.op \notin {"none", "read_multiple_files"} =>
            /\ rec.calls # <<>> => rec.accepted = PathsOf(rec.op)
            /\ fs # rec.fs0 => rec.accepted = PathsOf(rec.op)
            /\ rec.out.err.kind = "PathRejected" =>
                 /\ rec.pc = "done" /\ rec.out.status = "error"
                 /\ rec.calls = <<>>
                 /\ fs = rec.fs0
       /\ rec.op = "read_multiple_files" =>
            /\ fs = rec.fs0
            /\ \A i \in 1..Len(rec.sub) :
                 /\ rec.sub[i].calls # <<>> => rec.sub[i].accepted
                 /\ (rec.sub[i].pc = "done" /\ ~rec.sub[i].accepted) =>
                      /\ rec.sub[i].calls = <<>>
                      /\ IsPrefix(PathText(rec.paths[i]) \o <<": Error - ">>, rec.sub[i].entry)

\* C2's case: a move whose source was accepted and whose destination was
\* rejected has failed without a single filesystem call
C2_Witness ==
  \E r \in Procs :
    /\ req[r].op = "move_file" /\ req[r].pc = "done"
    /\ req[r].accepted = 1
    /\ req[r].out.err.kind = "PathRejected"
    /\ req[r].calls = <<>>

MutatingOps ==
  {"create_file", "modify_file", "edit_file", "move_file", "delete_file", "rename_file"}

\* the capability flag of a mutating handler
Capability(op) ==
  CASE op = "create_file" -> "create"
    [] op \in {"modify_file", "edit_file"} -> "edit"
    [] op = "move_file" -> "move"
    [] op = "delete_file" -> "delete"
    [] op = "rename_file" -> "rename"

HasCapability(op) == perms[Capability(op)] \/ perms.fullAccess

\* C3: a handler changes the filesystem only if its own capability flag or
\* fullAccess is granted; when neither is, no mutating call is issued and the
\* filesystem after the request is the filesystem before it.
C3_MutationNeedsCapability ==
  \A r \in Procs :
    LET rec == req[r]
    IN /\ (rec.op \in MutatingOps /\ ~HasCapability(rec.op)) =>
            /\ fs = rec.fs0
            /\ ~Mutates(rec.calls)
       /\ (rec.op \in MutatingOps /\ (fs # rec.fs0 \/ Mutates(rec.calls))) =>
            HasCapability(rec.op)

\* C3's case: a create_file request on a free path has been refused for want of
\* the create permission, although another permission is granted
C3_Witness ==
  \E r \in Procs :
    /\ req[r].op = "create_file" /\ req[r].pc = "done"
    /\ perms.edit /\ ~HasCapability("create_file")
    /\ ~Exists(req[r].fs0, req[r].validPath)
    /\ req[r].out.err.kind = "PermissionDenied"
    /\ fs = req[r].fs0

\* C4: a create_file request whose validated target exists when it is probed
\* fails with an already-exists failure; no mkdir and no writeFile is issued and
\* the file is untouched, for every path string and every permission set.
C4_CreateOnExistingFails ==
  \A r \in Procs :
    LET rec == req[r]
    IN (rec.op = "create_file" /\ Has(rec.calls, "access")
        /\ Exists(rec.fs0, rec.validPath)) =>
         /\ rec.pc = "done"
         /\ rec.out.status = "error"
         /\ rec.out.err.kind = "AlreadyExists"
         /\ ~Has(rec.calls, "mkdir")
         /\ ~Has(rec.calls, "writeFile")
         /\ fs = rec.fs0

\* C5: a move_file or rename_file request whose destination exists fails, and
\* neither the source nor the destination is changed.
C5_ExistingDestinationKept ==
  \A r \in Procs :
    LET rec == req[r]
    IN (rec.op \in {"move_file", "rename_file"} /\ rec.accepted = 2
        /\ rec.validDest # rec.validPath
        /\ Exists(rec.fs0, rec.validDest)) =>
         /\ fs = rec.fs0
         /\ rec.pc = "done" => rec.out.status = "error"


\* the maximum a request asks for: its override, otherwise 10240 bytes
C7_Limit(maxBytes) == IF maxBytes = <<>> THEN 10240 ELSE maxBytes[1]

\* C7: in handleReadFile, handleReadMultipleFiles (per path) and handleEditFile
\* stat comes before any readFile, and readFile is never issued for a file whose
\* size exceeds the effective maximum: the request (or that path's item) fails
\* with a size-limit failure naming both sizes; content is never truncated, and a
\* file of exactly the maximum size is accepted.
C7_SizeCheckedBeforeRead ==
  \A r \in Procs :
    LET rec == req[r]
        limit == C7_Limit(rec.maxBytes)
    IN /\ rec.op \in {"read_file", "edit_file"} =>
            LET node == Node(rec.fs0, rec.validPath)
                size == Len(node.content)
            IN /\ Has(rec.calls, "readFile") => (rec.calls[1] = "stat" /\ size <= limit)
               /\ (Has(rec.calls, "stat") /\ node.kind = "file" /\ size > limit) =>
                    /\ rec.pc = "done"
                    /\ rec.out.err.kind = "SizeLimitExceeded"
                    /\ Has(rec.out.err.msg, ToString(size))
                    /\ Has(rec.out.err.msg, ToString(limit))
                    /\ ~Has(rec.calls, "readFile")
               /\ (Has(rec.calls, "stat") /\ node.kind = "file" /\ size <= limit) =>
                    /\ rec.out.err.kind # "SizeLimitExceeded"
                    /\ rec.pc = "done" => Has(rec.calls, "readFile")
               /\ (rec.op = "read_file" /\ rec.out.status = "ok") =>
                    rec.out.text = node.content
       /\ rec.op = "read_multiple_files" =>
            \A i \in 1..Len(rec.sub) :
              LET task == rec.sub[i]
                  node == Node(rec.fs0, task.validPath)
                  size == Len(node.content)
              IN /\ Has(task.calls, "readFile") => (task.calls[1] = "stat" /\ size <= limit)
                 /\ (Has(task.calls, "stat") /\ node.kind = "file" /\ size > limit) =>
                      /\ task.pc = "done"
                      /\ IsPrefix(PathText(rec.paths[i]) \o <<": Error - ">>, task.entry)
                      /\ Has(task.entry, ToString(size))
                      /\ Has(task.entry, ToString(limit))
                      /\ ~Has(task.calls, "readFile")
                 /\ (task.pc = "done" /\ task.accepted /\ node.kind = "file" /\ size <= limit) =>
                      task.entry = PathText(rec.paths[i]) \o <<":", LF>> \o node.content \o <<LF>>

\* C7's case: a read_file request on a file one byte over the caller's maximum
\* has failed after stat alone
C7_Witness ==
  \E r \in Procs :
    /\ req[r].op = "read_file" /\ req[r].pc = "done"
    /\ req[r].maxBytes = <<1>>
    /\ Len(Node(fs, req[r].validPath).content) = 2
    /\ req[r].out.err.kind = "SizeLimitExceeded"
    /\ req[r].calls = <<"stat">>

\* whether path p can be read in filesystem f under the limit
C8_Readable(f, p, limit) ==
  LET c == Canon(<<>>, p)
  IN /\ InsideRoots(c)
     /\ Node(f, Dirname(c)).kind = "dir"
     /\ Node(f, c).kind = "file"
     /\ Len(Node(f, c).content) <= limit

\* C8: handleReadMultipleFiles with n paths always succeeds with n entries in
\* request order, entry i beginning with the i-th path as given; a path that
\* cannot be read yields an inline error entry and leaves the other entries as
\* they are, in whatever order the per-file tasks run.
C8_BatchReportsEveryPath ==
  \A r \in Procs :
    LET rec == req[r]
    IN rec.op = "read_multiple_files" =>
         /\ Len(rec.sub) = Len(rec.paths)
         /\ rec.out.status # "error"
         /\ \A i \in 1..Len(rec.sub) :
              rec.sub[i].pc = "done" =>
                LET p == rec.paths[i]
                    c == Canon(<<>>, p)
                IN /\ IsPrefix(PathText(p), rec.sub[i].entry)
                   /\ IF C8_Readable(rec.fs0, p, C7_Limit(rec.maxBytes))
                      THEN rec.sub[i].entry
                           = PathText(p) \o <<":", LF>> \o Node(rec.fs0, c).content \o <<LF>>
                      ELSE IsPrefix(PathText(p) \o <<": Error - ">>, rec.sub[i].entry)
         /\ rec.pc = "done" =>
              /\ rec.out.status = "ok"
              /\ \A i \in 1..Len(rec.sub) : rec.sub[i].pc = "done"
              /\ rec.out.text = JoinEntries([i \in 1..Len(rec.sub) |-> rec.sub[i].entry])

\* C8's case: a batch of two has returned a rejected path's error entry first
\* and a file's content second
C8_Witness ==
  \E r \in Procs :
    /\ req[r].op = "read_multiple_files" /\ req[r].pc = "done"
    /\ Len(req[r].paths) = 2
    /\ ~req[r].sub[1].accepted
    /\ Has(req[r].sub[1].entry, ": Error - ")
    /\ Has(req[r].sub[2].calls, "readFile")
    /\ ~Has(req[r].sub[2].entry, ": Error - ")
    /\ req[r].out.status = "ok"

\* whether validatePath would accept every path of the request
C9_PathsAccepted(rec) ==
  LET src == validatePath(rec.fs0, rec.path, rec.op # "create_file")
  IN /\ src.ok
     /\ rec.op = "move_file" => validatePath(rec.fs0, rec.dest, FALSE).ok
     /\ rec.op = "rename_file" =>
          validatePath(rec.fs0, RenameDestination(src.path, rec.dest), TRUE).ok

\* C9: a mutating request with accepted paths, issued without its capability
\* flag and without fullAccess, fails with a permission-denied failure naming
\* the missing permission, whatever the existence state of its target.
C9_DeniedReportsPermission ==
  \A r \in Procs :
    LET rec == req[r]
    IN (rec.op \in MutatingOps /\ rec.pc = "done"
        /\ ~HasCapability(rec.op) /\ C9_PathsAccepted(rec)) =>
         /\ rec.out.status = "error"
         /\ rec.out.err.kind = "PermissionDenied"
         /\ Has(rec.out.err.msg, Capability(rec.op))

\* C10: a rename_file request that succeeds leaves the file in the directory of
\* the validated source: only the final name segment differs.
C10_RenameStaysInDirectory ==
  \A r \in Procs :
    LET rec == req[r]
    IN (rec.op = "rename_file" /\ rec.pc = "done" /\ rec.out.status = "ok") =>
         Dirname(rec.validDest) = Dirname(rec.validPath)

(***************************************************************************)
(* Bounded search: searchFiles and findFilesByExtension                    *)
(*                                                                         *)
(* A name is a sequence of characters, a path a sequence of names.  The    *)
(* tree is a function from the paths below the search root to the kind of  *)
(* the entry.  The walk is a stack of frames, one per call of the inner    *)
(* function that has not returned.                                         *)
(***************************************************************************)
STAR == "*"
DOT == "."

\* String.prototype.toLowerCase over the letters the names are made of
LowerChar(c) ==
  CASE c = "A" -> "a"
    [] c = "T" -> "t"
    [] c = "X" -> "x"
    [] OTHER   -> c

ToLowerCase(s) == [i \in 1..Len(s) |-> LowerChar(s[i])]

\* path.extname: from the last dot of the name to its end, empty when the name
\* has no dot or its only dot is the first character
LastDot(name) ==
  IF \E i \in 1..Len(name) : name[i] = DOT
    THEN CHOOSE i \in 1..Len(name) :
           name[i] = DOT /\ \A k \in (i + 1)..Len(name) : name[k] # DOT
    ELSE 0

ExtName(name) ==
  IF LastDot(name) <= 1 THEN <<>> ELSE Rest(name, LastDot(name))

\* String.prototype.substring(1)
Substring1(s) == IF s = <<>> THEN <<>> ELSE Tail(s)

\* the extension asked for, lower case and without its leading dot
NormalizedExtension(extension) ==
  LET lower == ToLowerCase(extension)
  IN IF lower # <<>> /\ Head(lower) = DOT THEN Substring1(lower) ELSE lower

\* a glob is a sequence of segments; the segment ** is the globstar
GLOBSTAR == <<STAR, STAR>>

\* one segment of a glob against one name: * stands for any run of characters
RECURSIVE SegMatch(_, _)
SegMatch(name, seg) ==
  IF seg = <<>> THEN name = <<>>
  ELSE IF Head(seg) = STAR
    THEN \/ SegMatch(name, Tail(seg))
         \/ name # <<>> /\ SegMatch(Tail(name), seg)
  ELSE name # <<>> /\ Head(name) = Head(seg) /\ SegMatch(Tail(name), Tail(seg))

\* minimatch, option dot: the segments of the path against the segments of the
\* glob.  A globstar that ends the glob swallows the rest of the path, of which
\* there must be some; elsewhere it swallows any number of leading segments.
\* A path that ends while glob segments remain does not match.
RECURSIVE MatchOne(_, _)
MatchOne(file, pattern) ==
  IF file = <<>> \/ pattern = <<>> THEN file = <<>> /\ pattern = <<>>
  ELSE IF Head(pattern) = GLOBSTAR
    THEN IF Tail(pattern) = <<>> THEN TRUE
         ELSE \E fr \in 1..Len(file) : MatchOne(Rest(file, fr), Tail(pattern))
  ELSE SegMatch(Head(file), Head(pattern)) /\ MatchOne(Tail(file), Tail(pattern))

Minimatch(relativePath, globPattern) == MatchOne(relativePath, globPattern)

\* pattern.includes('*')
HasStar(pattern) ==
  \E i \in 1..Len(pattern) : \E k \in 1..Len(pattern[i]) : pattern[i][k] = STAR

GlobPattern(pattern) ==
  IF HasStar(pattern) THEN pattern ELSE <<GLOBSTAR>> \o pattern \o <<GLOBSTAR>>

ExcludesNothing(excludePatterns, relativePath) == FALSE

ShouldExclude(excludePatterns, relativePath) ==
  \E i \in 1..Len(excludePatterns) :
    Minimatch(relativePath, GlobPattern(excludePatterns[i]))

\* the search root; path.relative(rootPath, fullPath) drops it
RootPath == << <<"r">> >>

Relative(rootPath, fullPath) == Rest(fullPath, Len(rootPath) + 1)

\* fs.readdir with file types: the names directly below a directory
Readdir(tree, dir) ==
  {p[Len(p)] : p \in {q \in DOMAIN tree : Len(q) = Len(dir) + 1 /\ IsPrefix(dir, q)}}

IsDirectory(tree, p) == tree[p] = "dir"

IsFile(tree, p) == tree[p] = "file"

\* entry.name.toLowerCase().includes(pattern.toLowerCase())
NameMatches(name, pattern) == Includes(ToLowerCase(name), ToLowerCase(pattern))

\* a regular file whose extension, lower case and without the dot, is the one asked for
ExtensionMatches(tree, fullPath, extension) ==
  /\ IsFile(tree, fullPath)
  /\ Substring1(ToLowerCase(ExtName(fullPath[Len(fullPath)]))) = NormalizedExtension(extension)

Matches(rec, tree, fullPath) ==
  IF rec.op = "searchFiles"
    THEN NameMatches(fullPath[Len(fullPath)], rec.pattern)
    ELSE ExtensionMatches(tree, fullPath, rec.pattern)

\* one call of search / searchDirectory that has not returned: at its entry,
\* or in its loop with the names not yet visited
Frame(path, depth) == [path |-> path, depth |-> depth, pc |-> "enter", entries |-> {}]

Top(stack) == stack[Len(stack)]

Pop(stack) == SubSeq(stack, 1, Len(stack) - 1)

\* the state of one searchFiles / findFilesByExtension call; readdirs records,
\* for each directory listing, the directory, its depth and the number of
\* results held when it was issued; spare counts the turns of a loop taken with
\* the result list already full
SearchCall(op, pattern, excludePatterns, maxDepth, maxResults) ==
  [op |-> op, pattern |-> pattern, excludePatterns |-> excludePatterns,
   maxDepth |-> maxDepth, maxResults |-> maxResults,
   pc |-> "run", stack |-> <<Frame(RootPath, 0)>>, results |-> <<>>,
   readdirs |-> <<>>, spare |-> 0]

Walking(r) == req[r].pc = "run" /\ req[r].stack # <<>>

DepthReachedAfter(currentDepth, maxDepth) == currentDepth > maxDepth

\* Stop if max depth is reached
DepthReached(currentDepth, maxDepth) == currentDepth >= maxDepth

ResultsReachedLate(results, maxResults) == Len(results) > maxResults

\* Stop if max results are reached
ResultsReached(results, maxResults) == Len(results) >= maxResults

\* the entry of search / searchDirectory: return at once, or list the directory
S_Enter(r) ==
  /\ Walking(r)
  /\ Top(req[r].stack).pc = "enter"
  /\ LET rec == req[r]
         fr  == Top(rec.stack)
     IN IF DepthReached(fr.depth, rec.maxDepth) \/ ResultsReached(rec.results, rec.maxResults)
          THEN Step(r, [rec EXCEPT !.stack = Pop(@)])
          ELSE Step(r, [rec EXCEPT
                 !.readdirs = Append(@, [path |-> fr.path, depth |-> fr.depth,
                                         held |-> Len(rec.results)]),
                 !.stack[Len(rec.stack)] =
                   [fr EXCEPT !.pc = "loop", !.entries = Readdir(fs, fr.path)]])
  /\ UNCHANGED <<perms, fs, served, prev>>

\* one turn of the loop over the listed entries, which come in the order the
\* operating system gave them: any entry not yet visited may be the next
S_Entry(r) ==
  /\ Walking(r)
  /\ Top(req[r].stack).pc = "loop"
  /\ \E name \in Top(req[r].stack).entries :
       LET rec          == req[r]
           fr           == Top(rec.stack)
           fullPath     == fr.path \o <<name>>
           relativePath == Relative(RootPath, fullPath)
           rest         == [fr EXCEPT !.entries = @ \ {name}]
           matched      == Matches(rec, fs, fullPath)
           results1     == IF matched /\ Len(rec.results) < rec.maxResults
                             THEN Append(rec.results, fullPath) ELSE rec.results
           returns      == matched /\ ResultsReached(results1, rec.maxResults)
           recurses     == IsDirectory(fs, fullPath) /\ Len(results1) < rec.maxResults
           here         == Len(rec.stack)
           seen         == [rec EXCEPT !.spare = IF ResultsReached(rec.results, rec.maxResults)
                                                   THEN @ + 1 ELSE @]
       IN IF ShouldExclude(rec.excludePatterns, relativePath)
            THEN Step(r, [seen EXCEPT !.stack[here] = rest])
          ELSE IF returns
            THEN Step(r, [seen EXCEPT !.results = results1, !.stack = Pop(@)])
          ELSE IF recurses
            THEN Step(r, [seen EXCEPT !.results = results1,
                            !.stack = Append([@ EXCEPT ![here] = rest],
                                             Frame(fullPath, fr.depth + 1))])
          ELSE Step(r, [seen EXCEPT !.results = results1, !.stack[here] = rest])
  /\ UNCHANGED <<perms, fs, served, prev>>

\* the loop has visited every entry: the call returns
S_Return(r) ==
  /\ Walking(r)
  /\ Top(req[r].stack).pc = "loop"
  /\ Top(req[r].stack).entries = {}
  /\ Step(r, [req[r] EXCEPT !.stack = Pop(@)])
  /\ UNCHANGED <<perms, fs, served, prev>>

\* the outermost call has returned: return results
S_Done(r) ==
  /\ req[r].pc = "run"
  /\ req[r].stack = <<>>
  /\ Step(r, [req[r] EXCEPT !.pc = "done"])
  /\ UNCHANGED <<perms, fs, served, prev>>

\* the largest maxDepth and maxResults a caller asks for
MaxDepthAsked == 3
MaxResultsAsked == 3

Below(names) == RootPath \o names

\* five files at depth 1 whose names hold an a, and a directory with one more
FlatTree ==
  (Below(<< <<"a", "1">> >>) :> "file") @@ (Below(<< <<"a", "2">> >>) :> "file") @@
  (Below(<< <<"a", "3">> >>) :> "file") @@ (Below(<< <<"a", "4">> >>) :> "file") @@
  (Below(<< <<"a", "5">> >>) :> "file") @@
  (Below(<< <<"x">> >>) :> "dir") @@
  (Below(<< <<"x">>, <<"a", DOT, "t">> >>) :> "file") @@
  (RootPath :> "dir")

\* directories four deep, names in both cases, a dot file and an entry that is
\* neither a regular file nor a directory
DeepTree ==
  (Below(<< <<"x">> >>) :> "dir") @@
  (Below(<< <<"x">>, <<"a", DOT, "t">> >>) :> "file") @@
  (Below(<< <<"x">>, <<"x">> >>) :> "dir") @@
  (Below(<< <<"x">>, <<"x">>, <<"A", DOT, "T">> >>) :> "file") @@
  (Below(<< <<"x">>, <<"x">>, <<"y">> >>) :> "dir") @@
  (Below(<< <<"x">>, <<"x">>, <<"y">>, <<"a", DOT, "t">> >>) :> "file") @@
  (Below(<< <<"y">> >>) :> "dir") @@
  (Below(<< <<"y">>, <<"x">> >>) :> "dir") @@
  (Below(<< <<"y">>, <<"x">>, <<"a", DOT, "t">> >>) :> "file") @@
  (Below(<< <<"y">>, <<"X", "a">> >>) :> "other") @@
  (Below(<< <<"a", DOT, "t">> >>) :> "file") @@
  (Below(<< <<DOT, "t">> >>) :> "file") @@
  (RootPath :> "dir")

SearchTrees == {FlatTree, DeepTree}

\* the name asked for (searchFiles) or the extension (findFilesByExtension)
SearchQueries ==
  {<<"searchFiles", <<"a">> >>, <<"searchFiles", <<"X">> >>, <<"searchFiles", <<>> >>,
   <<"findFilesByExtension", <<DOT, "t">> >>, <<"findFilesByExtension", <<"T">> >>}

\* exclusion lists: none, a bare name, a glob of one segment, a glob with a
\* globstar, and two patterns
ExcludeChoices ==
  {<<>>,
   << << <<"x">> >> >>,
   << << <<STAR, DOT, "t">> >> >>,
   << <<GLOBSTAR, <<"y">> >> >>,
   << << <<"y">>, <<"x">> >>, << <<"a", STAR>> >> >>}

InitSearch ==
  /\ perms = NoPerms
  /\ fs \in SearchTrees
  /\ \E q \in SearchQueries, ex \in ExcludeChoices,
        d \in 0..MaxDepthAsked, n \in 0..MaxResultsAsked :
       req = [r \in Procs |-> SearchCall(q[1], q[2], ex, d, n)]
  /\ served = 0
  /\ prev = <<>>

NextSearch ==
  \E r \in Procs : S_Enter(r) \/ S_Entry(r) \/ S_Return(r) \/ S_Done(r)

SpecSearch == InitSearch /\ [][NextSearch]_vars

(***************************************************************************)
(* Properties of the bounded search                                        *)
(***************************************************************************)
DepthOf(fullPath) == Len(fullPath) - Len(RootPath)

ListedPaths(rec) == {rec.readdirs[i].path : i \in 1..Len(rec.readdirs)}

\* C11: the result list never holds more than maxResults entries, and no
\* directory is listed (readdir) at a moment when the list already holds
\* maxResults entries; as entries are added one at a time, none is added to a
\* full list.
C11_ResultsBounded ==
  \A r \in Procs :
    LET rec == req[r]
    IN /\ Len(rec.results) <= rec.maxResults
       /\ \A i \in 1..Len(rec.readdirs) : rec.readdirs[i].held < rec.maxResults

\* the list is full, the call that filled it has returned, and the loop of its
\* caller has gone on over the siblings listed before, adding nothing
C11_Witness ==
  \E r \in Procs :
    LET rec == req[r]
    IN /\ rec.maxResults >= 1 /\ Len(rec.results) = rec.maxResults
       /\ Len(rec.readdirs) >= 2
       /\ rec.spare >= 2

\* C12: readdir is issued only on directories at depth below maxDepth, the root
\* being depth 0; every result lies at most maxDepth segments below the root;
\* with maxDepth 0 nothing is listed and nothing returned.
C12_DepthBounded ==
  \A r \in Procs :
    LET rec == req[r]
    IN /\ \A i \in 1..Len(rec.readdirs) :
            /\ rec.readdirs[i].depth = DepthOf(rec.readdirs[i].path)
            /\ DepthOf(rec.readdirs[i].path) < rec.maxDepth
       /\ \A i \in 1..Len(rec.results) : DepthOf(rec.results[i]) <= rec.maxDepth
       /\ rec.maxDepth = 0 => rec.readdirs = <<>> /\ rec.results = <<>>

\* a finished walk with room left in the result list that returned an entry at
\* depth maxDepth and left a directory at that depth unlisted
C12_Witness ==
  \E r \in Procs :
    LET rec == req[r]
    IN /\ rec.pc = "done" /\ rec.maxDepth = 2 /\ rec.excludePatterns = <<>>
       /\ Len(rec.results) < rec.maxResults
       /\ \E i \in 1..Len(rec.results) : DepthOf(rec.results[i]) = 2
       /\ \E p \in DOMAIN fs :
            /\ fs[p] = "dir" /\ DepthOf(p) = 2
            /\ Pop(p) \in ListedPaths(rec)
            /\ p \notin ListedPaths(rec)

\* the exclusion test as the claim states it: some pattern, a bare name read as
\* **/name/**, matches the path relative to the search root
C20_Excluded(excludePatterns, relativePath) ==
  \E i \in 1..Len(excludePatterns) :
    Minimatch(relativePath, GlobPattern(excludePatterns[i]))

\* the entry or one of its ancestors below the root is excluded
C20_UnderExcluded(excludePatterns, fullPath) ==
  \E k \in (Len(RootPath) + 1)..Len(fullPath) :
    C20_Excluded(excludePatterns, Relative(RootPath, SubSeq(fullPath, 1, k)))

\* C20: no returned path is an excluded entry or lies beneath one, and no
\* directory that is excluded or lies beneath an excluded one is listed.
C20_ExcludedSkipped ==
  \A r \in Procs :
    LET rec == req[r]
    IN /\ \A i \in 1..Len(rec.results) :
            ~C20_UnderExcluded(rec.excludePatterns, rec.results[i])
       /\ \A i \in 1..Len(rec.readdirs) :
            ~C20_UnderExcluded(rec.excludePatterns, rec.readdirs[i].path)

\* a finished walk with room left in the result list that met an excluded
\* directory, within the depth limit, with a matching entry beneath it
C20_Witness ==
  \E r \in Procs :
    LET rec == req[r]
    IN /\ rec.pc = "done" /\ Len(rec.results) < rec.maxResults
       /\ \E p \in DOMAIN fs, q \in DOMAIN fs :
            /\ fs[p] = "dir" /\ p # RootPath
            /\ C20_Excluded(rec.excludePatterns, Relative(RootPath, p))
            /\ Pop(p) \in ListedPaths(rec)
            /\ DepthOf(p) < rec.maxDepth
            /\ IsPrefix(p, q) /\ q # p /\ DepthOf(q) <= rec.maxDepth
            /\ Matches(rec, fs, q)

(***************************************************************************)
(* applyFileEdits as a function of the file's text and the list of edits:  *)
(* the loop over the edits on its own, one iteration per step              *)
(***************************************************************************)
\* the largest number of edits in one call
MaxApplyEdits == 3

\* the texts a file holds when applyFileEdits reads it
ApplyTexts ==
  {<<"a", LF, "b", LF>>,
   <<SP, SP, "a", LF, SP, SP, "b", LF>>,
   <<"a", LF, "b", LF, "a", LF, "b">>,
   <<SP, SP, "a", LF>>,
   <<"a", CR, LF, "b">>}

ApplyEdits ==
  {Edit(<<"b">>, <<"c">>),
   Edit(<<"a">>, <<"c">>),
   Edit(<<"c">>, <<"d">>),
   Edit(<<"a", LF, "b">>, <<"c", LF, "d">>),
   Edit(<<"a", SP, LF, "b">>, <<"c", LF, SP, "d">>),
   Edit(<<TAB, "a", LF, TAB, "b">>, <<"c", LF, SP, SP, SP, "d", LF, "e">>),
   Edit(<<"b">>, <<DOLLAR, AMP>>),
   Edit(<<"c", CR, LF, "d">>, <<"a">>)}

\* one call: content is the text read, line endings normalized; trace records,
\* for each edit tried, the edit, the text it was tried on, the branch taken
\* and the text it left
ApplyCall(text, edits) ==
  [op |-> "applyFileEdits", content |-> normalizeLineEndings(text), edits |-> edits,
   modifiedContent |-> normalizeLineEndings(text), idx |-> 1, pc |-> "loop",
   err |-> NoErr, trace |-> <<>>]

\* a loop that takes the edits last to first
EditAtReversed(edits, idx) == edits[Len(edits) + 1 - idx]

\* for (const edit of edits)
EditAt(edits, idx) == edits[idx]

\* one iteration of the loop: the edit replaces modifiedContent, or throws
A_Edit(r) ==
  LET rec     == req[r]
      edit    == EditAt(rec.edits, rec.idx)
      applied == ApplyOneEdit(rec.modifiedContent, edit)
      noted   == [rec EXCEPT !.trace = Append(@, [edit |-> edit, before |-> rec.modifiedContent,
                                                   how |-> applied.how,
                                                   after |-> applied.content])]
  IN /\ rec.pc = "loop" /\ rec.idx <= Len(rec.edits)
     /\ Step(r, IF EditThrows(applied)
                  THEN [noted EXCEPT !.pc = "failed", !.err = MatchError(edit)]
                  ELSE [noted EXCEPT !.modifiedContent = applied.content, !.idx = @ + 1])
     /\ UNCHANGED <<perms, fs, served, prev>>

\* the loop is over: modifiedContent is what is diffed and written
A_Finish(r) ==
  /\ req[r].pc = "loop" /\ req[r].idx > Len(req[r].edits)
  /\ Step(r, [req[r] EXCEPT !.pc = "done"])
  /\ UNCHANGED <<perms, fs, served, prev>>

InitApply ==
  /\ perms = NoPerms
  /\ fs = EmptyFs
  /\ \E text \in ApplyTexts, edits \in SeqsUpTo(ApplyEdits, MaxApplyEdits) :
       req = [r \in Procs |-> ApplyCall(text, edits)]
  /\ served = 0
  /\ prev = <<>>

NextApply == \E r \in Procs : A_Edit(r) \/ A_Finish(r)

SpecApply == InitApply /\ [][NextApply]_vars

(***************************************************************************)
(* Properties of applyFileEdits                                            *)
(***************************************************************************)
\* some window of consecutive lines of text, as long as oldText, equals the
\* lines of oldText pairwise once each line is trimmed; the set of its starts
TrimmedWindows(text, oldText) ==
  LET oldLines == SplitLines(normalizeLineEndings(oldText))
      lines    == SplitLines(text)
  IN {i \in 1..Len(lines) :
        /\ i + Len(oldLines) - 1 <= Len(lines)
        /\ \A j \in 1..Len(oldLines) : Trim(oldLines[j]) = Trim(lines[i + j - 1])}

Occurs(text, oldText) == Includes(text, normalizeLineEndings(oldText))

Findable(text, edit) ==
  Occurs(text, edit.oldText) \/ TrimmedWindows(text, edit.oldText) # {}

\* C13: the k-th edit tried is the k-th edit of the list, it is tried on the
\* text left by the edits before it (the text read, for the first), and it
\* succeeds exactly when its oldText can be found, exactly or line by line, in
\* that text; the text a finished loop leaves is the one left by the last edit.
C13_EditsInOrderOnCumulativeText ==
  \A r \in Procs :
    LET rec == req[r]
        n   == Len(rec.trace)
    IN /\ \A k \in 1..n :
            LET subject == IF k = 1 THEN rec.content ELSE rec.trace[k - 1].after
            IN /\ rec.trace[k].edit = rec.edits[k]
               /\ rec.trace[k].before = subject
               /\ (rec.trace[k].how # "none") <=> Findable(subject, rec.edits[k])
       /\ rec.pc = "done" =>
            /\ n = Len(rec.edits)
            /\ rec.modifiedContent = IF n = 0 THEN rec.content ELSE rec.trace[n].after
       /\ rec.pc = "failed" => n >= 1 /\ rec.trace[n].how = "none"

\* the second edit succeeded on text that only the first edit introduced, and
\* the third failed on text that the first edit had removed
C13_Witness ==
  \E r \in Procs :
    LET rec == req[r]
    IN /\ rec.pc = "failed" /\ Len(rec.trace) = 3
       /\ rec.trace[2].how # "none" /\ ~Findable(rec.content, rec.edits[2])
       /\ rec.trace[3].how = "none" /\ Findable(rec.content, rec.edits[3])

\* text with the leftmost occurrence of old replaced by new, copied as it is
ReplacedVerbatim(text, old, new) ==
  LET starts == {i \in 1..(Len(text) + 1) :
                   i + Len(old) - 1 <= Len(text) /\ SubSeq(text, i, i + Len(old) - 1) = old}
      first  == CHOOSE i \in starts : \A k \in starts : i <= k
  IN SubSeq(text, 1, first - 1) \o new \o SubSeq(text, first + Len(old), Len(text))

\* C14: an edit whose normalized oldText occurs in the current text takes the
\* exact branch, and leaves the text with the leftmost occurrence replaced by
\* the normalized newText copied character for character, all else unchanged.
C14_ExactReplacesVerbatim ==
  \A r \in Procs :
    \A k \in 1..Len(req[r].trace) :
      LET t == req[r].trace[k]
      IN Occurs(t.before, t.edit.oldText) =>
           /\ t.how = "exact"
           /\ t.after = ReplacedVerbatim(t.before, normalizeLineEndings(t.edit.oldText),
                                         normalizeLineEndings(t.edit.newText))

\* C15: an edit with no exact occurrence succeeds exactly when some window of
\* lines equals the lines of oldText after trimming; the window with the lowest
\* start is the one replaced, the lines before and after it staying as they
\* were; otherwise the call fails and the failure holds oldText as the caller
\* gave it.
C15_FuzzyMatchesTrimmedWindow ==
  \A r \in Procs :
    \A k \in 1..Len(req[r].trace) :
      LET t       == req[r].trace[k]
          windows == TrimmedWindows(t.before, t.edit.oldText)
          first   == CHOOSE i \in windows : \A w \in windows : i <= w
          n       == Len(SplitLines(normalizeLineEndings(t.edit.oldText)))
          m       == Len(SplitLines(normalizeLineEndings(t.edit.newText)))
          lines   == SplitLines(t.before)
          left    == SplitLines(t.after)
      IN ~Occurs(t.before, t.edit.oldText) =>
           /\ (t.how = "fuzzy") <=> (windows # {})
           /\ (t.how = "none") <=> (windows = {})
           /\ t.how = "fuzzy" =>
                /\ Len(left) = Len(lines) - n + m
                /\ \A j \in 1..(first - 1) : left[j] = lines[j]
                /\ \A j \in 1..(Len(lines) - first - n + 1) :
                     left[first + m - 1 + j] = lines[first + n - 1 + j]
           /\ t.how = "none" =>
                /\ req[r].pc = "failed" /\ k = Len(req[r].trace)
                /\ t.after = t.before
                /\ req[r].err.kind = "MatchFailure"
                /\ req[r].err.msg =
                     <<"Could not find exact match for edit:", LF>> \o t.edit.oldText

\* a fuzzy edit replaced the first of two matching windows, and a later edit
\* whose oldText holds a carriage return failed
C15_Witness ==
  \E r \in Procs :
    LET rec == req[r]
    IN /\ rec.pc = "failed" /\ Len(rec.trace) >= 2
       /\ rec.trace[1].how = "fuzzy"
       /\ Cardinality(TrimmedWindows(rec.trace[1].before, rec.trace[1].edit.oldText)) >= 2
       /\ rec.trace[Len(rec.trace)].how = "none"
       /\ Includes(rec.trace[Len(rec.trace)].edit.oldText, <<CR>>)

Indent(line) == Len(LeadingWhitespace(line))

\* the replacement line j (0-based) of a fuzzy match as the claim gives it
ClaimedLine(j, authored, oldLines, blockIndent) ==
  IF j = 0 THEN blockIndent \o TrimStart(authored[1])
  ELSE IF j + 1 <= Len(oldLines)
    THEN blockIndent
         \o Repeat(SP, Max(0, Indent(authored[j + 1]) - Indent(oldLines[j + 1])))
         \o TrimStart(authored[j + 1])
  ELSE authored[j + 1]

RaceProcs == {1, 2}

RaceContents == {<<"a", LF, "b", LF>>, <<"a", "b", "a">>}

RaceEdits ==
  {Edit(<<"a">>, <<"c">>), Edit(<<"b">>, <<"d">>), Edit(<<"c">>, <<"a">>)}

InitRace ==
  /\ perms = EditOnly
  /\ \E c \in RaceContents : fs = [EmptyFs EXCEPT ![EditTarget] = FileNode(c)]
  /\ \E e1 \in RaceEdits, e2 \in RaceEdits :
       req = [r \in RaceProcs |->
                Started(Args("edit_file", EditTarget, <<>>, <<>>,
                             <<IF r = 1 THEN e1 ELSE e2>>, FALSE, <<>>, <<>>), fs)]
  /\ served = 0
  /\ prev = <<>>

NextRace ==
  \E r \in RaceProcs :
    EF_Validate(r) \/ EF_Stat(r) \/ EF_Read(r) \/ EF_Edit(r) \/ EF_Finish(r)

SpecRace == InitRace /\ [][NextRace]_vars

\* request r issues its writeFile in this step
Writes(r) == Count(req'[r].calls, "writeFile") > Count(req[r].calls, "writeFile")

\* C17: every writeFile of an edit_file request leaves the file holding exactly
\* the buffer of the request that issued it, whatever the other request has
\* read or written, and nothing else changes the file: the stored content is at
\* every moment the buffer of the last writer.
C17_LastWriterWins ==
  [][/\ \A r \in RaceProcs :
          Writes(r) => /\ req'[r].out.status = "ok"
                       /\ fs'[EditTarget] = FileNode(req[r].buf)
     /\ fs' # fs => \E r \in RaceProcs : Writes(r)]_vars

\* both requests read the text the file held at the start, both changed it and
\* both report success; the file holds the buffer of one, without the edit of
\* the other
C17_Witness ==
  /\ \A r \in RaceProcs :
       /\ req[r].pc = "done" /\ req[r].out.status = "ok"
       /\ req[r].original = normalizeLineEndings(req[r].fs0[EditTarget].content)
       /\ req[r].buf # req[r].original
       /\ Has(req[r].calls, "writeFile")
  /\ req[1].buf # req[2].buf
  /\ fs[EditTarget] = FileNode(req[2].buf)
  /\ \E i \in 1..Len(req[1].buf) :
       req[1].buf[i] = req[1].edits[1].newText[1] /\ ~Has(fs[EditTarget].content, req[1].buf[i])

(***************************************************************************)
(* Properties of the handlers, continued                                   *)
(***************************************************************************)
\* nothing exists where the parent of the canonical destination would be
DestParentMissing(rec) == Node(rec.fs0, Dirname(Canon(<<>>, rec.dest))).kind = "none"

\* C18 as stated: every finished move_file request whose destination's parent
\* directory does not exist has failed with the destination-parent-missing
\* failure, without a rename or a mkdir and with the filesystem as it was.
C18_MissingParentReported ==
  \A r \in Procs :
    LET rec == req[r]
    IN (rec.op = "move_file" /\ rec.pc = "done" /\ DestParentMissing(rec)) =>
         /\ rec.out.status = "error" /\ rec.out.err.kind = "DestParentMissing"
         /\ ~Has(rec.calls, "rename") /\ ~Has(rec.calls, "mkdir")
         /\ fs = rec.fs0

\* C18 amended: such a request fails without a rename or a mkdir and leaves the
\* filesystem as it was; the failure is the destination-parent-missing one,
\* naming the parent of the requested destination, when the move permission is
\* granted and both paths have passed validation.
C18_MissingParentFails ==
  \A r \in Procs :
    LET rec == req[r]
    IN (rec.op = "move_file" /\ rec.pc = "done" /\ DestParentMissing(rec)) =>
         /\ rec.out.status = "error"
         /\ ~Has(rec.calls, "rename") /\ ~Has(rec.calls, "mkdir")
         /\ fs = rec.fs0
         /\ ((perms["move"] \/ perms["fullAccess"]) /\ rec.accepted = 2) =>
              /\ rec.out.err.kind = "DestParentMissing"
              /\ rec.out.err.msg = <<"Destination parent directory does not exist: ">>
                                   \o PathText(Dirname(rec.dest))
              /\ rec.calls = <<"access">>

\* a permitted move of an existing file to a destination inside the sandbox
\* whose parent directory is missing has been refused after the probe
C18_Witness ==
  \E r \in Procs :
    LET rec == req[r]
    IN /\ rec.op = "move_file" /\ rec.pc = "done" /\ DestParentMissing(rec)
       /\ perms["move"] /\ rec.accepted = 2
       /\ Node(rec.fs0, rec.validPath).kind = "file"
       /\ Has(rec.calls, "access")
       /\ rec.out.err.kind = "DestParentMissing"
       /\ fs[rec.validPath] = rec.fs0[rec.validPath]

\* the request has got past the test of the catch block: it has reached the
\* permission check, and with the permission the mkdir and the writeFile
PastCreateProbe(rec) ==
  \/ rec.pc \in {"mkdir", "write"}
  \/ Has(rec.calls, "mkdir") \/ Has(rec.calls, "writeFile")
  \/ rec.pc = "done" /\ rec.out.err.kind = "PermissionDenied"

\* C19: a create_file request gets past the test of the catch block only when
\* fs.access itself failed because nothing exists at the target; when the probe
\* succeeded, the File already exists error it raised is the request's failure,
\* for every requested path string.
C19_ProceedsOnlyOnNotFound ==
  \A r \in Procs :
    LET rec == req[r]
    IN (rec.op = "create_file" /\ Has(rec.calls, "access")) =>
         /\ PastCreateProbe(rec) => ~Exists(rec.fs0, rec.validPath)
         /\ Exists(rec.fs0, rec.validPath) =>
              rec.out = [status |-> "error", text |-> <<>>,
                         err |-> Err("AlreadyExists", "",
                                     <<"File already exists: ">> \o PathText(rec.path))]

(***************************************************************************)
(* Two create_file requests in flight on the same path, which does not     *)
(* exist when they start                                                   *)
(***************************************************************************)
CreateOnly == [NoPerms EXCEPT !["create"] = TRUE]

CreateTargets ==
  {<<"sandbox", "a">>, <<"sandbox", "sub", "a">>, <<"sandbox", "ENOENT">>}

InitCreateRace ==
  /\ perms = CreateOnly
  /\ fs = EmptyFs
  /\ \E p \in CreateTargets, c1 \in FileContents, c2 \in FileContents :
       req = [r \in RaceProcs |->
                Started(Args("create_file", p, <<>>, IF r = 1 THEN c1 ELSE c2,
                             <<>>, FALSE, <<>>, <<>>), fs)]
  /\ served = 0
  /\ prev = <<>>

NextCreateRace ==
  \E r \in RaceProcs : CF_Validate(r) \/ CF_Access(r) \/ CF_Mkdir(r) \/ CF_Write(r)

SpecCreateRace == InitCreateRace /\ [][NextCreateRace]_vars

\* C21 as stated: of two concurrent create_file requests on a path that did not
\* exist, at most one reports success, and the file holds the content of the
\* request that did.
C21_AtMostOneCreates ==
  (\A r \in RaceProcs : req[r].pc = "done") =>
    /\ \E r \in RaceProcs : req[r].out.status # "ok"
    /\ \A r \in RaceProcs :
         req[r].out.status = "ok" => fs[req[r].validPath] = FileNode(req[r].content)

\* C21 amended: every writeFile a create_file request issues succeeds and leaves
\* the file holding exactly that request's content, whether or not the other
\* request has created the file since the probe, and nothing else changes the
\* file: the stored content is that of the request whose writeFile ran last.
C21_LastCreatorWins ==
  [][/\ \A r \in RaceProcs :
          Writes(r) => /\ req'[r].out.status = "ok"
                       /\ fs'[req[r].validPath] = FileNode(req[r].content)
     /\ \A p \in CreateTargets :
          fs'[p] # fs[p] => \E r \in RaceProcs : Writes(r) /\ req[r].validPath = p]_vars

\* both requests found nothing at the path, both wrote and both report success;
\* the file holds the content of the second and not that of the first
C21_Witness ==
  /\ \A r \in RaceProcs :
       /\ req[r].pc = "done" /\ req[r].out.status = "ok"
       /\ req[r].calls = <<"access", "mkdir", "writeFile">>
       /\ ~Exists(req[r].fs0, req[r].validPath)
  /\ ~Has(req[1].path, "ENOENT")
  /\ req[1].content # req[2].content
  /\ fs[req[2].validPath] = FileNode(req[2].content)

====
